---- MODULE Spec2Model ----
(***************************************************************************)
(* flake8_redundant_parentheses: the redundancy-detection engine of        *)
(* parentheses_checker/__init__.py.                                        *)
(*                                                                         *)
(* A source unit is a text (a sequence of one-character strings).  The     *)
(* host hands the plugin its token stream (tokenize), its tree (ast.parse) *)
(* and its lines; the plugin pairs the brackets (find_parens_coords),      *)
(* erases each pair and re-parses (check_trees), walks the tree collecting *)
(* exceptions (Checker.check) and yields the problems (Plugin.run).        *)
(***************************************************************************)
EXTENDS Integers, Sequences, FiniteSets, TLC

VARIABLES
    src,                 \* the source text, a sequence of characters
    file_token,          \* Plugin.file_token: the token stream of src
    tree,                \* Plugin._tree: the parsed Module, or NoTree
    pc,                  \* position of the pass
    i,                   \* find_parens_coords: index of the next token (0-based)
    last_line,           \* find_parens_coords: last_line
    opening_stack,       \* find_parens_coords: opening_stack
    parentheses_pairs,   \* find_parens_coords: parentheses_pairs
    k,                   \* Plugin.__init__: index of the next pair to test (1-based)
    vals,                \* Plugin.vals: the pairs check_trees found redundant
    erased,              \* the texts check_trees built, one per tested pair
    queue,               \* Checker.check: the nodes ast.walk still has to yield
    exceptions,          \* Checker.check: exceptions
    problems,            \* Checker.problems
    yielded,             \* what Plugin.run has yielded
    raised               \* the exception that ended the pass, or "none"

vars == <<src, file_token, tree, pc, i, last_line, opening_stack,
          parentheses_pairs, k, vals, erased, queue, exceptions, problems,
          yielded, raised>>

----------------------------------------------------------------------------
(* Bounds of the model. *)

\* The longest text drawn letter by letter from BracketAlphabet.
MaxStream == 4

\* The longest text drawn letter by letter from ProgramAlphabet.
MaxLen == 4

----------------------------------------------------------------------------
(* Text: Python str as a sequence of characters. *)

NewLine == "\n"
BackSlash == "\\"

Min(a, b) == IF a < b THEN a ELSE b
Max(a, b) == IF a > b THEN a ELSE b

\* Python's s[a:b] for a sequence s and 0-based bounds (negative bounds count
\* from the end, out-of-range bounds are clamped).
PyIndex(n, a) == IF a < 0 THEN Max(0, n + a) ELSE Min(n, a)

PySlice(s, a, b) ==
    LET lo == PyIndex(Len(s), a)
        hi == PyIndex(Len(s), b)
    IN  IF hi <= lo THEN <<>> ELSE SubSeq(s, lo + 1, hi)

\* s[a:]
PyFrom(s, a) == PySlice(s, a, Len(s))

\* s[:b]
PyUpTo(s, b) == PySlice(s, 0, b)

\* str.split("\n"): the pieces between the line breaks (one more than breaks).
RECURSIVE SplitFrom(_, _, _)
SplitFrom(s, p, cur) ==
    IF p > Len(s) THEN <<cur>>
    ELSE IF s[p] = NewLine THEN <<cur>> \o SplitFrom(s, p + 1, <<>>)
    ELSE SplitFrom(s, p + 1, Append(cur, s[p]))

Split(s) == SplitFrom(s, 1, <<>>)

\* "\n".join(lines)
RECURSIVE Join(_)
Join(lines) ==
    IF Len(lines) = 0 THEN <<>>
    ELSE IF Len(lines) = 1 THEN lines[1]
    ELSE lines[1] \o <<NewLine>> \o Join(Tail(lines))

\* Python's ordering of (line, column) tuples.
TupLT(a, b) == a[1] < b[1] \/ (a[1] = b[1] /\ a[2] < b[2])
TupLE(a, b) == a = b \/ TupLT(a, b)

----------------------------------------------------------------------------
(* The host's tokenizer (tokenize.generate_tokens), for the characters of  *)
(* the model: letters, blanks, line breaks, a backslash before a line      *)
(* break, and the one-character operators.  A token is a record            *)
(* [type, string, start, end, line]: tokenize's TokenInfo.                 *)

OP == 54
NAME == 1
NEWLINE == 4
NL == 62
ENDMARKER == 0
INDENT == 5

Letters == {"a", "b", "c", "d", "e", "f", "i", "n", "o", "r", "t", "u",
            "x", "y", "z"}
Operators == {"(", ")", "[", "]", ",", "+", "-", "="}
open_list == <<"[", "{", "(">>
close_list == <<"]", "}", ")">>

Token(type, string, line, col, width, text) ==
    [type |-> type, string |-> string, start |-> <<line, col>>,
     end |-> <<line, col + width>>, line |-> text]

\* The end of the run of letters that starts at p.
RECURSIVE NameEnd(_, _)
NameEnd(s, p) ==
    IF p <= Len(s) /\ s[p] \in Letters THEN NameEnd(s, p + 1) ELSE p

RECURSIVE Concat(_)
Concat(chars) == IF Len(chars) = 0 THEN "" ELSE chars[1] \o Concat(Tail(chars))

\* The tokens of physical line ln from column p on.  lev is the bracket
\* depth (tokenize's parenlev), fresh says that no token of this line has
\* been seen and the line starts a statement (which implies lev = 0).  The
\* result is the stream from here to the end of the text; a text that ends
\* with a bracket open (or one too many closed) or after a backslash ends
\* the stream without ENDMARKER (tokenize raises TokenError there, after the
\* tokens it has yielded).  A statement that starts after blanks is
\* indented: the grammar fragment has no block, so the parser rejects the
\* stream at the INDENT token and the DEDENT tokens that would follow are
\* not produced.
RECURSIVE Scan(_, _, _, _, _)
Scan(lines, ln, p, lev, fresh) ==
    LET text == lines[ln] \o <<NewLine>>
    IN  IF ln > Len(lines) - 1
        THEN IF lev # 0 \/ ~fresh THEN <<>>
             ELSE <<Token(ENDMARKER, "", ln, 0, 0, <<>>)>>
        ELSE LET ch == text[p + 1] IN
        IF ch = " " THEN Scan(lines, ln, p + 1, lev, fresh)
        ELSE IF fresh /\ p > 0 /\ ch # NewLine
        THEN <<[type |-> INDENT, string |-> Concat(SubSeq(text, 1, p)),
                start |-> <<ln, 0>>, end |-> <<ln, p>>, line |-> text]>>
             \o Scan(lines, ln, p, lev, FALSE)
        ELSE IF ch = NewLine
        THEN IF fresh \/ lev > 0
             THEN <<Token(NL, NewLine, ln, p, 1, text)>>
                  \o Scan(lines, ln + 1, 0, lev, lev = 0)
             ELSE <<Token(NEWLINE, NewLine, ln, p, 1, text)>>
                  \o Scan(lines, ln + 1, 0, lev, lev = 0)
        ELSE IF ch = BackSlash
        THEN Scan(lines, ln + 1, 0, lev, FALSE)
        ELSE IF ch \in Letters
        THEN LET q == NameEnd(text, p + 1) - 1
             IN  <<Token(NAME, Concat(SubSeq(text, p + 1, q)), ln, p, q - p, text)>>
                 \o Scan(lines, ln, q, lev, FALSE)
        ELSE <<Token(OP, ch, ln, p, 1, text)>>
             \o Scan(lines, ln, p + 1,
                     IF ch \in {"(", "["} THEN lev + 1
                     ELSE IF ch \in {")", "]"} THEN lev - 1 ELSE lev,
                     FALSE)

\* The token stream of a text that ends with a line break.
Tokenize(s) == Scan(Split(s), 1, 0, 0, TRUE)

----------------------------------------------------------------------------
(* The host's trees (ast).  A node is a record: kind is the class name, id *)
(* the identifier of a Name, attributes says whether the class carries     *)
(* lineno, col_offset, end_lineno, end_col_offset (ast's _attributes), and *)
(* kids are the child nodes in the order ast.iter_child_nodes yields them. *)

NoTree == [kind |-> "NoTree", id |-> "", attributes |-> FALSE, lineno |-> 0,
           col_offset |-> 0, end_lineno |-> 0, end_col_offset |-> 0,
           kids |-> <<>>]

\* A node of a class without position attributes: Module, comprehension,
\* the operators and the expression contexts.
Bare(kind, kids) ==
    [kind |-> kind, id |-> "", attributes |-> FALSE, lineno |-> 0,
     col_offset |-> 0, end_lineno |-> 0, end_col_offset |-> 0, kids |-> kids]

\* A node that spans the tokens T[p] .. T[q - 1].
Node(kind, id, T, p, q, kids) ==
    [kind |-> kind, id |-> id, attributes |-> TRUE,
     lineno |-> T[p].start[1], col_offset |-> T[p].start[2],
     end_lineno |-> T[q - 1].end[1], end_col_offset |-> T[q - 1].end[2],
     kids |-> kids]

Load == Bare("Load", <<>>)
Store == Bare("Store", <<>>)

\* Tuple.elts and List.elts: the children before the expression context.
Elts(node) == SubSeq(node.kids, 1, Len(node.kids) - 1)

\* Assign.targets and Assign.value.
Targets(node) == SubSeq(node.kids, 1, Len(node.kids) - 1)
Value(node) == node.kids[Len(node.kids)]

\* What the grammar accepts on the left of "=" (within the fragment): a
\* name, or a tuple or list display of such.
RECURSIVE IsTarget(_)
IsTarget(node) ==
    \/ node.kind = "Name"
    \/ /\ node.kind \in {"Tuple", "List"}
       /\ \A n \in 1..Len(Elts(node)) : IsTarget(Elts(node)[n])

\* The node with the Store context the parser gives an assignment target.
RECURSIVE AsStore(_)
AsStore(node) ==
    IF node.kind = "Name" THEN [node EXCEPT !.kids = <<Store>>]
    ELSE IF node.kind \in {"Tuple", "List"}
    THEN [node EXCEPT !.kids =
             [n \in 1..Len(node.kids) |->
                 IF n = Len(node.kids) THEN Store ELSE AsStore(node.kids[n])]]
    ELSE node

\* ast.dump(tree): the classes and fields of the tree without the position
\* attributes.
RECURSIVE Dump(_)
Dump(node) ==
    [kind |-> node.kind, id |-> node.id,
     kids |-> [n \in 1..Len(node.kids) |-> Dump(node.kids[n])]]

----------------------------------------------------------------------------
(* The host's parser (ast.parse), for the fragment of the grammar the      *)
(* model's texts are written in: one simple statement per logical line     *)
(* (an expression statement, an assignment, a return), tuples, the binary  *)
(* and unary + and -, calls, parenthesized groups and tuples, list         *)
(* displays and a list comprehension with one for clause.                  *)
(*                                                                         *)
(* The parser reads the tokens from left to right and keeps a stack of     *)
(* entries: an operand (a parsed expression with the tokens p .. q - 1 it  *)
(* spans) or a marker for a token that waits for what follows it: "(" and  *)
(* "[" of a display or group, "call" for the "(" of a call, "unary" and    *)
(* "binary" operators, ",", "=", and the keywords.  A configuration is     *)
(* [ok, fin, stack, body]: ~ok is SyntaxError, fin that ENDMARKER was      *)
(* read, body the statements parsed so far.                                *)

Keywords == {"return", "for", "in"}

Operand(node, p, q) ==
    [tag |-> "operand", id |-> "", node |-> node, p |-> p, q |-> q]
Marker(tag, id, p) ==
    [tag |-> tag, id |-> id, node |-> NoTree, p |-> p, q |-> p + 1]

IsOp(t, s) == t.type = OP /\ t.string = s
IsKw(t, s) == t.type = NAME /\ t.string = s

TopTag(stack) == IF Len(stack) = 0 THEN "bottom" ELSE stack[Len(stack)].tag

\* The innermost construct that is still open: the index of its marker (0
\* at the start of a statement) and its tag.
OpenTags == {"(", "call", "[", "for", "in", "=", "return"}
LevelIdx(stack) ==
    LET open == {n \in 1..Len(stack) : stack[n].tag \in OpenTags}
    IN  IF open = {} THEN 0 ELSE CHOOSE n \in open : \A m \in open : m <= n
LevelTag(stack) ==
    IF LevelIdx(stack) = 0 THEN "bottom" ELSE stack[LevelIdx(stack)].tag

Keep(stack, n) == SubSeq(stack, 1, n)

\* The unary operators that wait for the operand on top are applied to it.
RECURSIVE ApplyUnary(_, _)
ApplyUnary(T, stack) ==
    LET n == Len(stack) IN
    IF n >= 2 /\ stack[n].tag = "operand" /\ stack[n - 1].tag = "unary"
    THEN ApplyUnary(T,
             Append(Keep(stack, n - 2),
                    Operand(Node("UnaryOp", "", T, stack[n - 1].p, stack[n].q,
                                 <<Bare(IF stack[n - 1].id = "+" THEN "UAdd"
                                        ELSE "USub", <<>>),
                                   stack[n].node>>),
                            stack[n - 1].p, stack[n].q)))
    ELSE stack

\* The binary operator that waits for the operand on top is applied.
ApplyBinary(T, stack) ==
    LET n == Len(stack) IN
    IF n >= 3 /\ stack[n].tag = "operand" /\ stack[n - 1].tag = "binary"
    THEN Append(Keep(stack, n - 3),
                Operand(Node("BinOp", "", T, stack[n - 2].p, stack[n].q,
                             <<stack[n - 2].node,
                               Bare(IF stack[n - 1].id = "+" THEN "Add" ELSE "Sub",
                                    <<>>),
                               stack[n].node>>),
                        stack[n - 2].p, stack[n].q))
    ELSE stack

\* The expression on top is complete: no call follows it.
Reduce(T, stack) == ApplyBinary(T, ApplyUnary(T, stack))

\* After Reduce the entries above the open marker are elements separated
\* by commas: the nodes of the elements, and the number of commas.
ElementNodes(stack) ==
    LET m == LevelIdx(stack)
    IN  [n \in 1..((Len(stack) - m + 1) \div 2) |-> stack[m + 2 * n - 1].node]
Commas(stack) == (Len(stack) - LevelIdx(stack)) \div 2

\* The entries above the open marker end with an element or with the comma
\* after one.
HasElements(stack) == TopTag(stack) \in {"operand", ","}

\* star_expressions and star_targets: the one element, or the tuple written
\* without parentheses (which ends with its last element or comma).
StarOperand(T, stack) ==
    LET m == LevelIdx(stack) IN
    IF Commas(stack) = 0 THEN stack[m + 1]
    ELSE Operand(Node("Tuple", "", T, stack[m + 1].p, stack[Len(stack)].q,
                      Append(ElementNodes(stack), Load)),
                 stack[m + 1].p, stack[Len(stack)].q)

Rejected(cfg) == [cfg EXCEPT !.ok = FALSE]
Shift(cfg, stack) == [cfg EXCEPT !.stack = stack]

\* ")" closes a group, a tuple or a call.
OnCloseParen(T, n, cfg) ==
    LET s == Reduce(T, cfg.stack)
        m == LevelIdx(s)
    IN  IF ~(HasElements(s) \/ Len(s) = m) THEN Rejected(cfg)
        ELSE IF LevelTag(s) = "(" /\ Len(s) = m + 1
        THEN Shift(cfg, Append(Keep(s, m - 1),
                               Operand(s[m + 1].node, s[m].p, n + 1)))
        ELSE IF LevelTag(s) = "("
        THEN Shift(cfg, Append(Keep(s, m - 1),
                               Operand(Node("Tuple", "", T, s[m].p, n + 1,
                                            Append(ElementNodes(s), Load)),
                                       s[m].p, n + 1)))
        ELSE IF LevelTag(s) = "call"
        THEN Shift(cfg, Append(Keep(s, m - 2),
                               Operand(Node("Call", "", T, s[m - 1].p, n + 1,
                                            <<s[m - 1].node>> \o ElementNodes(s)),
                                       s[m - 1].p, n + 1)))
        ELSE Rejected(cfg)

\* "]" closes a list display or a list comprehension.
OnCloseBracket(T, n, cfg) ==
    LET s == Reduce(T, cfg.stack)
        m == LevelIdx(s)
    IN  IF LevelTag(s) = "[" /\ (HasElements(s) \/ Len(s) = m)
        THEN Shift(cfg, Append(Keep(s, m - 1),
                               Operand(Node("List", "", T, s[m].p, n + 1,
                                            Append(ElementNodes(s), Load)),
                                       s[m].p, n + 1)))
        ELSE IF LevelTag(s) = "in" /\ Len(s) = m + 1 /\ TopTag(s) = "operand"
        THEN Shift(cfg, Append(Keep(s, m - 5),
                               Operand(Node("ListComp", "", T, s[m - 4].p, n + 1,
                                            <<s[m - 3].node,
                                              Bare("comprehension",
                                                   <<s[m - 1].node, s[m + 1].node>>)>>),
                                       s[m - 4].p, n + 1)))
        ELSE Rejected(cfg)

\* "=" and "in" end a target; tag is the marker pushed after it.
OnTargetEnd(T, n, cfg, tag) ==
    LET s == Reduce(T, cfg.stack)
        star == StarOperand(T, s)
    IN  IF HasElements(s)
           /\ LevelTag(s) \in (IF tag = "in" THEN {"for"} ELSE {"bottom", "="})
           /\ IsTarget(star.node)
        THEN Shift(cfg, Keep(s, LevelIdx(s))
                        \o <<Operand(AsStore(star.node), star.p, star.q),
                             Marker(tag, "", n)>>)
        ELSE Rejected(cfg)

\* NEWLINE ends a statement.
OnNewline(T, n, cfg) ==
    LET s == Reduce(T, cfg.stack)
        m == LevelIdx(s)
        star == StarOperand(T, s)
        stmt == IF LevelTag(s) = "bottom"
                THEN Node("Expr", "", T, star.p, star.q, <<star.node>>)
                ELSE IF LevelTag(s) = "="
                THEN Node("Assign", "", T, s[1].p, star.q,
                          Append([j \in 1..(m \div 2) |-> s[2 * j - 1].node],
                                 star.node))
                ELSE Node("Return", "", T, s[1].p, star.q, <<star.node>>)
    IN  IF HasElements(s) /\ LevelTag(s) \in {"bottom", "=", "return"}
        THEN [cfg EXCEPT !.stack = <<>>, !.body = Append(cfg.body, stmt)]
        ELSE IF TopTag(s) = "return"
        THEN [cfg EXCEPT !.stack = <<>>,
                         !.body = Append(cfg.body,
                                         Node("Return", "", T, s[1].p, s[1].q, <<>>))]
        ELSE Rejected(cfg)

\* What the parser does with token n.
ParseStep(T, n, cfg) ==
    LET t == T[n]
        s == cfg.stack
        after == TopTag(s) = "operand"
    IN  IF t.type = ENDMARKER
        THEN IF Len(s) = 0 THEN [cfg EXCEPT !.fin = TRUE] ELSE Rejected(cfg)
        ELSE IF t.type = NEWLINE THEN OnNewline(T, n, cfg)
        ELSE IF IsKw(t, "return")
        THEN IF Len(s) = 0 THEN Shift(cfg, <<Marker("return", "", n)>>)
             ELSE Rejected(cfg)
        ELSE IF IsKw(t, "for")
        THEN LET r == Reduce(T, s) IN
             IF after /\ LevelTag(r) = "[" /\ Len(r) = LevelIdx(r) + 1
             THEN Shift(cfg, Append(r, Marker("for", "", n)))
             ELSE Rejected(cfg)
        ELSE IF IsKw(t, "in") THEN OnTargetEnd(T, n, cfg, "in")
        ELSE IF t.type = NAME
        THEN IF after THEN Rejected(cfg)
             ELSE Shift(cfg, Append(s, Operand(Node("Name", t.string, T, n, n + 1,
                                                     <<Load>>), n, n + 1)))
        ELSE IF IsOp(t, "(")
        THEN Shift(cfg, Append(s, Marker(IF after THEN "call" ELSE "(", "", n)))
        ELSE IF IsOp(t, "[")
        THEN IF after THEN Rejected(cfg)
             ELSE Shift(cfg, Append(s, Marker("[", "", n)))
        ELSE IF IsOp(t, "+") \/ IsOp(t, "-")
        THEN IF after
             THEN Shift(cfg, Append(Reduce(T, s), Marker("binary", t.string, n)))
             ELSE Shift(cfg, Append(s, Marker("unary", t.string, n)))
        ELSE IF IsOp(t, ",")
        THEN IF after /\ LevelTag(s) # "in"
             THEN Shift(cfg, Append(Reduce(T, s), Marker(",", "", n)))
             ELSE Rejected(cfg)
        ELSE IF IsOp(t, ")") THEN OnCloseParen(T, n, cfg)
        ELSE IF IsOp(t, "]") THEN OnCloseBracket(T, n, cfg)
        ELSE IF IsOp(t, "=") THEN OnTargetEnd(T, n, cfg, "=")
        ELSE Rejected(cfg)

\* The tokens from T[n] on; a stream that ends without ENDMARKER is rejected.
RECURSIVE ParseTokens(_, _, _)
ParseTokens(T, n, cfg) ==
    IF ~cfg.ok \/ cfg.fin THEN cfg
    ELSE IF n > Len(T) THEN Rejected(cfg)
    ELSE ParseTokens(T, n + 1, ParseStep(T, n, cfg))

\* The parser does not see the NL tokens.
Significant(T) == SelectSeq(T, LAMBDA t : t.type # NL)

\* ast.parse(text): [ok, node]; ~ok is SyntaxError.
Parse(text) ==
    LET cfg == ParseTokens(Significant(Tokenize(text)), 1,
                           [ok |-> TRUE, fin |-> FALSE, stack |-> <<>>,
                            body |-> <<>>])
    IN  [ok |-> cfg.ok, node |-> Bare("Module", cfg.body)]

----------------------------------------------------------------------------
(* find_parens_coords: one iteration of the loop over the tokens.  The     *)
(* loop state is [stack, pairs, last_line, raised].                        *)

Index(list, x) == CHOOSE n \in 1..Len(list) : list[n] = x
InList(list, x) == \E n \in 1..Len(list) : list[n] = x

\* Lines 117-128: the entry pushed for the opening token at 0-based index n:
\* [start, the column the erasure ends at, the replacement, the symbol].
\* <<>> stands for the IndexError of token[i + 1] past the end.
OpeningEntry(token, n, first_in_line) ==
    LET t == token[n + 1] IN
    IF ~first_in_line THEN <<t.start, t.end[2], <<" ">>, t.string>>
    ELSE IF n + 2 > Len(token) THEN <<>>
    ELSE IF token[n + 2].start[1] = t.end[1]
    THEN <<t.start, token[n + 2].start[2], <<>>, t.string>>
    ELSE <<t.start, Len(t.line) - 2, <<>>, t.string>>

\* Lines 132-133: the assertion on the popped opening and the closing symbol.
KindsAgree(opening, string) ==
    Index(open_list, opening[4]) = Index(close_list, string)

\* Lines 134-136: the pair emitted for a popped opening and a closing token.
PairOf(opening, t) == <<opening[1], opening[2], opening[3], t.start>>

\* Line 131: opening_stack.pop() returns the entry pushed last.
PoppedFirst(stack) == stack[1]
Popped(stack) == stack[Len(stack)]

\* Lines 113-136.
FindParensIteration(token, n, st) ==
    LET t == token[n + 1]
        first_in_line == st.last_line # t.start[1]
        seen == [st EXCEPT !.last_line = t.end[1]]
        rest == SubSeq(st.stack, 1, Len(st.stack) - 1)
    IN  IF t.type # OP THEN seen
        ELSE IF InList(open_list, t.string)
        THEN LET entry == OpeningEntry(token, n, first_in_line) IN
             IF entry = <<>> THEN [seen EXCEPT !.raised = "IndexError"]
             ELSE [seen EXCEPT !.stack = Append(st.stack, entry)]
        ELSE IF InList(close_list, t.string)
        THEN IF Len(st.stack) = 0 THEN [seen EXCEPT !.raised = "IndexError"]
             ELSE IF ~KindsAgree(Popped(st.stack), t.string)
             THEN [seen EXCEPT !.stack = rest, !.raised = "AssertionError"]
             ELSE [seen EXCEPT !.stack = rest,
                               !.pairs = Append(st.pairs,
                                                PairOf(Popped(st.stack), t))]
        ELSE seen

----------------------------------------------------------------------------
(* check_trees.                                                            *)

\* code_without_parens with the closing column not shifted.
EraseUnshifted(source_code, parens_coords) ==
    LET open_ == parens_coords[1]
        space == parens_coords[2]
        replacement == parens_coords[3]
        close == parens_coords[4]
        lines == Split(source_code)
        lines1 == [lines EXCEPT ![open_[1]] =
                      PyUpTo(lines[open_[1]], open_[2]) \o replacement
                      \o PyFrom(lines[open_[1]], space)]
        lines2 == [lines1 EXCEPT ![close[1]] =
                      PyUpTo(lines1[close[1]], close[2]) \o <<" ">>
                      \o PyFrom(lines1[close[1]], close[2] + 1)]
    IN  Join(lines2)

\* Lines 147-157: code_without_parens.
Erase(source_code, parens_coords) ==
    LET open_ == parens_coords[1]
        space == parens_coords[2]
        replacement == parens_coords[3]
        close == parens_coords[4]
        lines == Split(source_code)
        lines1 == [lines EXCEPT ![open_[1]] =
                      PyUpTo(lines[open_[1]], open_[2]) \o replacement
                      \o PyFrom(lines[open_[1]], space)]
        shift == IF open_[1] = close[1]
                 THEN 0 - ((space - open_[2]) - Len(replacement))
                 ELSE 0
        lines2 == [lines1 EXCEPT ![close[1]] =
                      PyUpTo(lines1[close[1]], close[2] + shift) \o <<" ">>
                      \o PyFrom(lines1[close[1]], close[2] + 1 + shift)]
    IN  Join(lines2)

\* The comparison of the dumps left out.
ParsesAtAll(code_without_parens, start_tree) == Parse(code_without_parens).ok

\* Lines 158-165: whether the text without the pair parses to the same dump.
SameTree(code_without_parens, start_tree) ==
    LET r == Parse(code_without_parens)
    IN  r.ok /\ Dump(r.node) = start_tree

check_trees(source_code, start_tree, parens_coords) ==
    SameTree(Erase(source_code, parens_coords), start_tree)

----------------------------------------------------------------------------
(* Checker.check: what the body of the loop over ast.walk does for one     *)
(* node.  The walk state is [exceptions, problems, raised].                *)

PAR001 == "PAR001: Too many parentheses"
PAR002 == "PAR002: Dont use parentheses for unpacking"

bin_exc == {"BinOp", "BoolOp", "UnaryOp", "Compare", "Await"}

\* Lines 19-24.
node_in_parens(node, parens_coords) ==
    LET open_ == parens_coords[1]
        close == parens_coords[4]
        node_start == <<node.lineno, node.col_offset>>
        node_end == <<node.end_lineno, node.end_col_offset>>
    IN  TupLE(open_, node_start) /\ TupLE(node_end, close)

\* The loop over vals without the break at a pair around the parent.
RECURSIVE OperatorValsChildOnly(_, _, _, _, _)
OperatorValsChildOnly(node, child, vs, n, exc) ==
    IF n > Len(vs) THEN exc
    ELSE IF node_in_parens(child, vs[n]) /\ ~InList(exc, vs[n])
    THEN Append(exc, vs[n])
    ELSE OperatorValsChildOnly(node, child, vs, n + 1, exc)

\* Lines 37-43: the loop over vals for one operator child, from vals[n] on.
RECURSIVE OperatorVals(_, _, _, _, _)
OperatorVals(node, child, vs, n, exc) ==
    IF n > Len(vs) THEN exc
    ELSE IF node_in_parens(node, vs[n]) THEN exc
    ELSE IF node_in_parens(child, vs[n]) /\ ~InList(exc, vs[n])
    THEN Append(exc, vs[n])
    ELSE OperatorVals(node, child, vs, n + 1, exc)

\* Lines 33-43: the loop over the children of node, from kids[n] on.
RECURSIVE OperatorRule(_, _, _, _)
OperatorRule(node, vs, n, exc) ==
    IF node.kind \notin bin_exc \/ n > Len(node.kids) THEN exc
    ELSE IF node.kids[n].kind \notin bin_exc
    THEN OperatorRule(node, vs, n + 1, exc)
    ELSE OperatorRule(node, vs, n + 1,
                      OperatorVals(node, node.kids[n], vs, 1, exc))

\* Lines 53-59: the first of vals, from vals[n] on, that opens at
\* tuple_coords and is not yet an exception becomes one.
RECURSIVE UnpackVals(_, _, _, _)
UnpackVals(tuple_coords, vs, n, exc) ==
    IF n > Len(vs) THEN exc
    ELSE IF vs[n][1] = tuple_coords /\ ~InList(exc, vs[n])
    THEN Append(exc, vs[n])
    ELSE UnpackVals(tuple_coords, vs, n + 1, exc)

\* Lines 50-52: the target tuple starts before its first element.
TargetInParens(targ) ==
    LET elts == Elts(targ)[1]
    IN  TupLT(<<targ.lineno, targ.col_offset>>, <<elts.lineno, elts.col_offset>>)

\* Lines 45-65: the loop over the targets of node, from targets[n] on.
RECURSIVE UnpackRule(_, _, _, _)
UnpackRule(node, vs, n, st) ==
    IF node.kind # "Assign" \/ n > Len(Targets(node)) THEN st
    ELSE LET targ == Targets(node)[n] IN
         IF targ.kind # "Tuple" \/ Len(Elts(targ)) = 0 \/ ~TargetInParens(targ)
         THEN UnpackRule(node, vs, n + 1, st)
         ELSE UnpackRule(node, vs, n + 1,
                  [st EXCEPT
                     !.exceptions = UnpackVals(<<targ.lineno, targ.col_offset>>,
                                               vs, 1, st.exceptions),
                     !.problems = Append(st.problems,
                                         <<node.lineno, node.col_offset, PAR002>>)])

\* Line 69: the comparison of the end columns of a tuple and its parent.
TupleAtEnd(node_tup, node) == node_tup.end_col_offset - node.end_col_offset = 0

\* Lines 70-73: the first of vals, from vals[n] on, that is not yet an
\* exception becomes one.
RECURSIVE TailVals(_, _, _)
TailVals(vs, n, exc) ==
    IF n > Len(vs) THEN exc
    ELSE IF ~InList(exc, vs[n]) THEN Append(exc, vs[n])
    ELSE TailVals(vs, n + 1, exc)

\* Lines 67-74: the loop over the children of node, from kids[n] on.  A
\* parent without end_col_offset raises AttributeError at line 69.
RECURSIVE TupleRule(_, _, _, _)
TupleRule(node, vs, n, st) ==
    IF n > Len(node.kids) THEN st
    ELSE IF node.kids[n].kind # "Tuple" THEN TupleRule(node, vs, n + 1, st)
    ELSE IF ~node.attributes THEN [st EXCEPT !.raised = "AttributeError"]
    ELSE IF TupleAtEnd(node.kids[n], node)
    THEN [st EXCEPT !.exceptions = TailVals(vs, 1, st.exceptions)]
    ELSE TupleRule(node, vs, n + 1, st)

\* Lines 33-74: the body of the loop for one node.
Visit(node, vs, st) ==
    LET st1 == [st EXCEPT !.exceptions = OperatorRule(node, vs, 1, st.exceptions)]
        st2 == UnpackRule(node, vs, 1, st1)
    IN  TupleRule(node, vs, 1, st2)

\* Lines 76-79: the problems appended for vals[n], vals[n + 1], ...
RECURSIVE Report(_, _, _, _)
Report(vs, n, exc, probs) ==
    IF n > Len(vs) THEN probs
    ELSE IF InList(exc, vs[n]) THEN Report(vs, n + 1, exc, probs)
    ELSE Report(vs, n + 1, exc,
                Append(probs, <<vs[n][1][1], vs[n][1][2], PAR001>>))

\* Lines 102-103: what run yields for the problems.
Yield(probs) ==
    [n \in 1..Len(probs) |-> <<probs[n][1], probs[n][2], probs[n][3], "Plugin">>]

----------------------------------------------------------------------------
(* The source units of the model.                                          *)

\* The texts of 1..n characters of alphabet, each ended by a line break.
Texts(alphabet, n) ==
    UNION {{body \o <<NewLine>> : body \in [1..m -> alphabet]} : m \in 1..n}

BracketAlphabet == {"(", ")", "[", "]", "a", NewLine}
ProgramAlphabet == {"(", ")", "a", ",", "+", NewLine}

\* Programs written out: the examples of the documentation and programs
\* with blanks, names, assignments, calls and continuation lines.
Examples == {
    \* ((a + b) + c)
    <<"(", "(", "a", " ", "+", " ", "b", ")", " ", "+", " ", "c", ")", "\n">>,
    \* (a, b) = f()
    <<"(", "a", ",", " ", "b", ")", " ", "=", " ", "f", "(", ")", "\n">>,
    \* return a, b
    <<"r", "e", "t", "u", "r", "n", " ", "a", ",", " ", "b", "\n">>,
    \* return (a, b)
    <<"r", "e", "t", "u", "r", "n", " ", "(", "a", ",", " ", "b", ")", "\n">>,
    \* (a,\nb) = c
    <<"(", "a", ",", "\n", "b", ")", " ", "=", " ", "c", "\n">>,
    \* (a)\nb, c
    <<"(", "a", ")", "\n", "b", ",", " ", "c", "\n">>,
    \* ((a), b)
    <<"(", "(", "a", ")", ",", " ", "b", ")", "\n">>,
    \* z = [(x) for a, b in y]
    <<"z", " ", "=", " ", "[", "(", "x", ")", " ", "f", "o", "r", " ", "a", ",", " ", "b", " ", "i", "n", " ", "y", "]", "\n">>,
    \* ((a+b))+c
    <<"(", "(", "a", "+", "b", ")", ")", "+", "c", "\n">>,
    \* ((a+b)+c)+d
    <<"(", "(", "a", "+", "b", ")", "+", "c", ")", "+", "d", "\n">>,
    \* (x)\n(a,)+(\nb+c)
    <<"(", "x", ")", "\n", "(", "a", ",", ")", "+", "(", "\n", "b", "+", "c", ")", "\n">>,
    \* (\\\na)
    <<"(", "\\", "\n", "a", ")", "\n">>,
    \* (a+b+c),d
    <<"(", "a", "+", "b", "+", "c", ")", ",", "d", "\n">>,
    \* x = ( a)
    <<"x", " ", "=", " ", "(", " ", "a", ")", "\n">>,
    \* (  a)
    <<"(", " ", " ", "a", ")", "\n">>,
    \* a = (b,\n c)
    <<"a", " ", "=", " ", "(", "b", ",", "\n", " ", "c", ")", "\n">>,
    \* -(-a)
    <<"-", "(", "-", "a", ")", "\n">>,
    \* a - (b + c)
    <<"a", " ", "-", " ", "(", "b", " ", "+", " ", "c", ")", "\n">>,
    \* a - (b - c)
    <<"a", " ", "-", " ", "(", "b", " ", "-", " ", "c", ")", "\n">>,
    \* (a)\nx = (b, c)
    <<"(", "a", ")", "\n", "x", " ", "=", " ", "(", "b", ",", " ", "c", ")", "\n">>,
    \* (a, b) = (c, d) = e
    <<"(", "a", ",", " ", "b", ")", " ", "=", " ", "(", "c", ",", " ", "d", ")", " ", "=", " ", "e", "\n">>,
    \* x = (a) = b
    <<"x", " ", "=", " ", "(", "a", ")", " ", "=", " ", "b", "\n">>,
    \* f((a), (b, c))
    <<"f", "(", "(", "a", ")", ",", " ", "(", "b", ",", " ", "c", ")", ")", "\n">>,
    \* [(a), b] = c
    <<"[", "(", "a", ")", ",", " ", "b", "]", " ", "=", " ", "c", "\n">>,
    \* (\n a)
    <<"(", "\n", " ", "a", ")", "\n">>,
    \* x = (\n a\n)
    <<"x", " ", "=", " ", "(", "\n", " ", "a", "\n", ")", "\n">>,
    \* (a)\nx = (b)\n(\\\nc)
    <<"(", "a", ")", "\n", "x", " ", "=", " ", "(", "b", ")", "\n", "(", "\\", "\n", "c", ")", "\n">>,
    \* (a+b+c)
    <<"(", "a", "+", "b", "+", "c", ")", "\n">>,
    \* (a,) = b
    <<"(", "a", ",", ")", " ", "=", " ", "b", "\n">>,
    \* () = a
    <<"(", ")", " ", "=", " ", "a", "\n">>,
    \* a, (b, c) = d
    <<"a", ",", " ", "(", "b", ",", " ", "c", ")", " ", "=", " ", "d", "\n">>,
    \* (a)(b)
    <<"(", "a", ")", "(", "b", ")", "\n">>,
    \* (  \\\na)
    <<"(", " ", " ", "\\", "\n", "a", ")", "\n">>,
    \* x = (\\\na)
    <<"x", " ", "=", " ", "(", "\\", "\n", "a", ")", "\n">>
}

\* The token streams find_parens_coords is run on by itself.
Streams == Texts(BracketAlphabet, MaxStream)

\* The programs the host parses and runs the plugin on.
Programs == {s \in Texts(ProgramAlphabet, MaxLen) \cup Examples : Parse(s).ok}

----------------------------------------------------------------------------
(* The pass.                                                               *)

Start(text, module) ==
    /\ src = text
    /\ file_token = Tokenize(text)
    /\ tree = module
    /\ pc = "find_parens_coords"
    /\ i = 0
    /\ last_line = -1
    /\ opening_stack = <<>>
    /\ parentheses_pairs = <<>>
    /\ k = 1
    /\ vals = <<>>
    /\ erased = <<>>
    /\ queue = <<>>
    /\ exceptions = <<>>
    /\ problems = <<>>
    /\ yielded = <<>>
    /\ raised = "none"

\* Either find_parens_coords is called on a token stream, or the host has
\* parsed a program and constructs the plugin (lines 86-92).
Init ==
    \/ \E text \in Streams : Start(text, NoTree)
    \/ \E text \in Programs : Start(text, Parse(text).node)

\* Lines 112-136: one iteration of the loop of find_parens_coords.
FindParensStep ==
    /\ pc = "find_parens_coords"
    /\ i < Len(file_token)
    /\ LET st == FindParensIteration(file_token, i,
                     [stack |-> opening_stack, pairs |-> parentheses_pairs,
                      last_line |-> last_line, raised |-> "none"])
       IN  /\ opening_stack' = st.stack
           /\ parentheses_pairs' = st.pairs
           /\ last_line' = st.last_line
           /\ raised' = st.raised
           /\ pc' = IF st.raised = "none" THEN pc ELSE "raised"
           /\ i' = IF st.raised = "none" THEN i + 1 ELSE i
    /\ UNCHANGED <<src, file_token, tree, k, vals, erased, queue, exceptions,
                   problems, yielded>>

\* Line 138: find_parens_coords returns parentheses_pairs.
FindParensReturn ==
    /\ pc = "find_parens_coords"
    /\ i = Len(file_token)
    /\ pc' = IF tree = NoTree THEN "returned" ELSE "check_trees"
    /\ UNCHANGED <<src, file_token, tree, i, last_line, opening_stack,
                   parentheses_pairs, k, vals, erased, queue, exceptions,
                   problems, yielded, raised>>

\* Lines 93-95: one iteration of the loop of Plugin.__init__.
CheckTreesStep ==
    /\ pc = "check_trees"
    /\ k <= Len(parentheses_pairs)
    /\ LET coords == parentheses_pairs[k] IN
       /\ vals' = IF check_trees(src, Dump(tree), coords)
                  THEN Append(vals, coords) ELSE vals
       /\ erased' = Append(erased, Erase(src, coords))
    /\ k' = k + 1
    /\ UNCHANGED <<src, file_token, tree, pc, i, last_line, opening_stack,
                   parentheses_pairs, queue, exceptions, problems, yielded,
                   raised>>

\* Lines 97-101: Plugin.run returns at once without vals, and otherwise
\* constructs the Checker and enters check.
Run ==
    /\ pc = "check_trees"
    /\ k > Len(parentheses_pairs)
    /\ pc' = IF Len(vals) = 0 THEN "done" ELSE "walk"
    /\ queue' = IF Len(vals) = 0 THEN <<>> ELSE <<tree>>
    /\ UNCHANGED <<src, file_token, tree, i, last_line, opening_stack,
                   parentheses_pairs, k, vals, erased, exceptions, problems,
                   yielded, raised>>

\* Lines 32-74: one iteration of the loop over ast.walk(self.tree), which
\* yields the nodes breadth first.
WalkStep ==
    /\ pc = "walk"
    /\ Len(queue) > 0
    /\ LET node == Head(queue)
           st == Visit(node, vals, [exceptions |-> exceptions,
                                    problems |-> problems, raised |-> "none"])
       IN  /\ exceptions' = st.exceptions
           /\ problems' = st.problems
           /\ raised' = st.raised
           /\ pc' = IF st.raised = "none" THEN pc ELSE "raised"
           /\ queue' = Tail(queue) \o node.kids
    /\ UNCHANGED <<src, file_token, tree, i, last_line, opening_stack,
                   parentheses_pairs, k, vals, erased, yielded>>

\* Lines 76-79 and 102-103: the walk is over; the redundant pairs that are
\* no exceptions are reported and run yields the problems.
Emit ==
    /\ pc = "walk"
    /\ Len(queue) = 0
    /\ problems' = Report(vals, 1, exceptions, problems)
    /\ yielded' = Yield(problems')
    /\ pc' = "done"
    /\ UNCHANGED <<src, file_token, tree, i, last_line, opening_stack,
                   parentheses_pairs, k, vals, erased, queue, exceptions,
                   raised>>

Next ==
    \/ FindParensStep
    \/ FindParensReturn
    \/ CheckTreesStep
    \/ Run
    \/ WalkStep
    \/ Emit

Spec == Init /\ [][Next]_vars


----------------------------------------------------------------------------
(* Properties.                                                             *)

Range(seq) == {seq[n] : n \in 1..Len(seq)}

\* The nodes of a tree.
RECURSIVE Nodes(_)
Nodes(node) == {node} \cup UNION {Nodes(node.kids[j]) : j \in 1..Len(node.kids)}

\* The number of PAR001 diagnostics run has yielded at a coordinate.
Reported(coord) ==
    Cardinality({n \in 1..Len(yielded) :
                    /\ yielded[n][3] = "PAR001: Too many parentheses"
                    /\ <<yielded[n][1], yielded[n][2]>> = coord})

\* The pair opens at or before the start of the node and closes at or after
\* its end.
Encloses(val, node) ==
    /\ TupLE(val[1], <<node.lineno, node.col_offset>>)
    /\ TupLE(<<node.end_lineno, node.end_col_offset>>, val[4])

\* The spans of the pair and of the node have a character in common.
Touches(val, node) ==
    /\ TupLT(val[1], <<node.end_lineno, node.end_col_offset>>)
    /\ TupLE(<<node.lineno, node.col_offset>>, val[4])

\* Erasing pair m (the text check_trees built for it) parses, to the dump of
\* the original tree.
Redundant(m) ==
    LET r == Parse(erased[m]) IN r.ok /\ Dump(r.node) = Dump(tree)

\* C1: every PAR001 that run yields is at the opening coordinates of a
\* matched pair whose erasure parses to the dump of the original tree, and
\* no PAR001 is at the opening of a pair whose erasure fails to parse or
\* changes the dump.
C1_Par001OnlyForRedundantPairs ==
    /\ \A n \in 1..Len(yielded) :
          yielded[n][3] = PAR001 =>
              \E m \in 1..Len(erased) :
                  /\ parentheses_pairs[m][1] = <<yielded[n][1], yielded[n][2]>>
                  /\ Redundant(m)
    /\ pc = "done" =>
          \A m \in 1..Len(erased) :
              ~Redundant(m) => Reported(parentheses_pairs[m][1]) = 0

C1_Witness ==
    /\ pc = "done"
    /\ \E n \in 1..Len(yielded) : yielded[n][3] = PAR001
    /\ \E m \in 1..Len(erased) : ~Redundant(m)

\* The operator nodes with an operator child: <<parent, child>>.
OperatorPairs ==
    {<<node, node.kids[j]>> : <<node, j>> \in
        {<<node, j>> \in Nodes(tree) \X (1..8) :
            /\ node.kind \in bin_exc
            /\ j <= Len(node.kids)
            /\ node.kids[j].kind \in bin_exc}}

\* The tuples that are a direct child and end where their parent ends (line
\* and column).
TailTuples ==
    {node.kids[j] : <<node, j>> \in
        {<<node, j>> \in Nodes(tree) \X (1..8) :
            /\ node.attributes
            /\ j <= Len(node.kids)
            /\ node.kids[j].kind = "Tuple"
            /\ node.kids[j].end_lineno = node.end_lineno
            /\ node.kids[j].end_col_offset = node.end_col_offset}}

\* The tuples in parentheses that are the target of an assignment.
UnpackingTargets ==
    {targ \in UNION {Range(Targets(node)) :
                        node \in {a \in Nodes(tree) : a.kind = "Assign"}} :
        /\ targ.kind = "Tuple"
        /\ Len(Elts(targ)) > 0
        /\ TupLT(<<targ.lineno, targ.col_offset>>,
                 <<Elts(targ)[1].lineno, Elts(targ)[1].col_offset>>)}

\* The pair has something to do with a node one of the three exceptions is
\* about.
Excepted(val) ==
    \/ \E pair \in OperatorPairs : Encloses(val, pair[2])
    \/ \E targ \in UnpackingTargets : val[1] = <<targ.lineno, targ.col_offset>>
    \/ \E tup \in TailTuples : Touches(val, tup)

\* C2: after check, every redundant pair has exactly one PAR001 at its
\* opening coordinates unless its own coordinates fall inside an exception
\* span; a redundant pair unrelated to every such node is never suppressed.
C2_UnrelatedPairNeverSuppressed ==
    pc = "done" =>
        \A n \in 1..Len(vals) :
            ~Excepted(vals[n]) => Reported(vals[n][1]) = 1

\* C3: an assignment to a tuple of names in parentheses always gets a PAR002
\* at the coordinates of the assignment, also when no pair is redundant.
C3_UnpackingAlwaysFlagged ==
    pc = "done" =>
        \A node \in {a \in Nodes(tree) : a.kind = "Assign"} :
            (\E targ \in UnpackingTargets : targ \in Range(Targets(node))) =>
                \E n \in 1..Len(yielded) :
                    /\ <<yielded[n][1], yielded[n][2]>>
                          = <<node.lineno, node.col_offset>>
                    /\ yielded[n][3] = PAR002

\* C4: no PAR001 is at the opening of the redundant pair that wraps a tail
\* tuple, whatever other redundant pairs there are; and without a tail tuple
\* (a tuple child that ends at the line and column its parent ends at) the
\* tail-tuple rule suppresses nothing.
C4_TailTuplePairNotReported ==
    pc = "done" =>
        /\ \A tup \in TailTuples : \A n \in 1..Len(vals) :
              (/\ vals[n][1] = <<tup.lineno, tup.col_offset>>
               /\ vals[n][4] = <<tup.end_lineno, tup.end_col_offset - 1>>)
              => Reported(vals[n][1]) = 0
        /\ TailTuples = {} =>
              \A e \in Range(exceptions) :
                  \/ \E pair \in OperatorPairs : Encloses(e, pair[2])
                  \/ \E targ \in UnpackingTargets :
                        e[1] = <<targ.lineno, targ.col_offset>>

\* The redundant pairs (indices into vals) around the child and not around
\* its parent.
AroundChild(pair) ==
    {n \in 1..Len(vals) : Encloses(vals[n], pair[2]) /\ ~Encloses(vals[n], pair[1])}

\* ((a + b) + c)
OperatorExample ==
    <<"(", "(", "a", " ", "+", " ", "b", ")", " ", "+", " ", "c", ")", "\n">>

\* C5 as stated: every redundant pair around an operator child (and not its
\* parent) is suppressed, and every redundant pair around the parent is
\* reported at its own opening coordinates.
C5_Original ==
    pc = "done" =>
        \A pair \in OperatorPairs : \A n \in 1..Len(vals) :
            /\ n \in AroundChild(pair) => Reported(vals[n][1]) = 0
            /\ Encloses(vals[n], pair[1]) => Reported(vals[n][1]) = 1

\* C5 as amended: for every operator node with an operator child, the first
\* redundant pair (in the order the pairs close: the innermost) that is
\* around the child and not around the parent is an exception and gets no
\* PAR001; the rule makes no pair around the node it visits an exception,
\* only pairs around one of its operator children; and for ((a + b) + c)
\* exactly the outer pair is reported, at its own coordinates.
C5_InnermostChildPairSuppressed ==
    /\ pc = "done" =>
          \A pair \in OperatorPairs :
              AroundChild(pair) # {} =>
                  LET first == CHOOSE n \in AroundChild(pair) :
                                  \A m \in AroundChild(pair) : n <= m
                  IN  /\ InList(exceptions, vals[first])
                      /\ Reported(vals[first][1]) = 0
    /\ (pc = "walk" /\ Len(queue) > 0) =>
          \A e \in Range(OperatorRule(Head(queue), vals, 1, exceptions))
                   \ Range(exceptions) :
              /\ ~Encloses(e, Head(queue))
              /\ \E pair \in OperatorPairs :
                    pair[1] = Head(queue) /\ Encloses(e, pair[2])
    /\ (pc = "done" /\ src = OperatorExample) =>
          yielded = <<<<1, 0, PAR001, "Plugin">>>>

C5_Witness ==
    /\ pc = "done"
    /\ src = OperatorExample
    /\ \E pair \in OperatorPairs : AroundChild(pair) # {}
    /\ Len(exceptions) = 1

\* C6: for a source unit that parses, the pass raises nothing.
C6_NeverRaisesOnValidInput == tree # NoTree => raised = "none"

\* C7: the kind of every diagnostic is one of the two documented strings.
C7_DocumentedKinds ==
    \A n \in 1..Len(yielded) :
        yielded[n][3] \in {"PAR001: Too many parentheses",
                           "PAR002: Don't use parentheses for unpacking"}

\* The bracket tokens of a stream.
BracketTokens(T) ==
    SelectSeq(T, LAMBDA t : t.type = OP /\ (InList(open_list, t.string)
                                            \/ InList(close_list, t.string)))

Closer(string) == close_list[Index(open_list, string)]

\* The bracket tokens B[n], B[n + 1], ... close the openings that wait, in
\* reverse order and kind by kind, and every opening among them is closed.
RECURSIVE Matched(_, _, _)
Matched(B, n, open) ==
    IF n > Len(B) THEN Len(open) = 0
    ELSE IF InList(open_list, B[n].string)
    THEN Matched(B, n + 1, Append(open, B[n].string))
    ELSE /\ Len(open) > 0
         /\ Closer(open[Len(open)]) = B[n].string
         /\ Matched(B, n + 1, SubSeq(open, 1, Len(open) - 1))

Balanced(T) == Matched(BracketTokens(T), 1, <<>>)

\* find_parens_coords has returned its list of pairs.
Returned == pc \in {"returned", "check_trees", "walk", "done"}

\* C8: find_parens_coords returns a pair list for no stream that is
\* unbalanced or mismatched (it raises on each of them).
C8_RaisesOnEveryUnbalancedStream == Returned => Balanced(file_token)

\* The start coordinates of the opening and of the closing bracket tokens.
OpenStarts ==
    {t.start : t \in {u \in Range(file_token) :
                         u.type = OP /\ InList(open_list, u.string)}}
CloseStarts ==
    {t.start : t \in {u \in Range(file_token) :
                         u.type = OP /\ InList(close_list, u.string)}}
StringAt(coord) ==
    (CHOOSE t \in Range(file_token) : t.type = OP /\ t.start = coord).string

\* C9: on a balanced stream find_parens_coords raises nothing and returns
\* pairs that join every opening token and every closing token to exactly
\* one pair, an opening with a later closing of its kind, never crossing,
\* in the order of the closing tokens, with the stack empty at the end.
C9_PairsNestedAndComplete ==
    Balanced(file_token) =>
        /\ raised \notin {"IndexError", "AssertionError"}
        /\ pc # "find_parens_coords" =>
              LET P == parentheses_pairs IN
              /\ opening_stack = <<>>
              /\ {P[n][1] : n \in 1..Len(P)} = OpenStarts
              /\ {P[n][4] : n \in 1..Len(P)} = CloseStarts
              /\ Len(P) = Cardinality(OpenStarts)
              /\ Len(P) = Cardinality(CloseStarts)
              /\ \A n \in 1..Len(P) :
                    /\ TupLT(P[n][1], P[n][4])
                    /\ Closer(StringAt(P[n][1])) = StringAt(P[n][4])
              /\ \A n, m \in 1..Len(P) :
                    /\ n < m => TupLT(P[n][4], P[m][4])
                    /\ ~(/\ TupLT(P[n][1], P[m][1])
                         /\ TupLT(P[m][1], P[n][4])
                         /\ TupLT(P[n][4], P[m][4]))

C9_Witness ==
    /\ pc = "returned"
    /\ Balanced(file_token)
    /\ \E n, m \in 1..Len(parentheses_pairs) :
          /\ StringAt(parentheses_pairs[n][1]) = "["
          /\ StringAt(parentheses_pairs[m][1]) = "("
          /\ TupLT(parentheses_pairs[n][1], parentheses_pairs[m][1])
          /\ TupLT(parentheses_pairs[m][4], parentheses_pairs[n][4])

\* A text without its blanks.
Visible(text) == SelectSeq(text, LAMBDA c : c # " ")

\* A line without its character at 0-based column col.
Without(line, col) == SubSeq(line, 1, col) \o SubSeq(line, col + 2, Len(line))

\* The source without the two bracket characters of a pair.
Unbracketed(pair) ==
    LET L == Split(src)
        L1 == [L EXCEPT ![pair[4][1]] = Without(L[pair[4][1]], pair[4][2])]
    IN  Join([L1 EXCEPT ![pair[1][1]] = Without(L1[pair[1][1]], pair[1][2])])

\* The opening token of the pair is the only token of its line (the line
\* goes on after a backslash).
AloneOnLine(pair) ==
    LET line == Split(src)[pair[1][1]]
    IN  Visible(line) = <<line[pair[1][2] + 1], BackSlash>>

\* C10: the text check_trees builds for a pair has the lines of the source,
\* all but the lines of the pair unchanged; it keeps what is before the
\* opening bracket; it has one blank where the closing bracket was (moved
\* left by what the opening line lost when both are on one line) and keeps
\* what follows it; and apart from blanks it is the source without the two
\* brackets.
C10_ErasureTouchesOnlyThePair ==
    \A m \in 1..Len(erased) :
        LET pair == parentheses_pairs[m]
            L == Split(src)
            E == Split(erased[m])
            ol == pair[1][1]
            oc == pair[1][2]
            cl == pair[4][1]
            cc == pair[4][2]
            d == IF ol = cl THEN Len(L[ol]) - Len(E[ol]) ELSE 0
        IN  /\ Len(E) = Len(L)
            /\ \A j \in 1..Len(L) : j \notin {ol, cl} => E[j] = L[j]
            /\ InList(open_list, L[ol][oc + 1])
            /\ InList(close_list, L[cl][cc + 1])
            /\ SubSeq(E[ol], 1, oc) = SubSeq(L[ol], 1, oc)
            /\ d >= 0
            /\ E[cl][cc + 1 - d] = " "
            /\ SubSeq(E[cl], cc + 2 - d, Len(E[cl]))
                  = SubSeq(L[cl], cc + 2, Len(L[cl]))
            /\ ol # cl => SubSeq(E[cl], 1, cc) = SubSeq(L[cl], 1, cc)
            /\ Visible(erased[m]) = Visible(Unbracketed(pair))

\* One run with the three layouts of the opening token: not first on its
\* line, first with a token after it, alone on its line.
C10_Witness ==
    /\ pc = "done"
    /\ \E m \in 1..Len(erased) : parentheses_pairs[m][3] = <<" ">>
    /\ \E m \in 1..Len(erased) :
          /\ parentheses_pairs[m][3] = <<>>
          /\ parentheses_pairs[m][1][1] = parentheses_pairs[m][4][1]
          /\ ~AloneOnLine(parentheses_pairs[m])
    /\ \E m \in 1..Len(erased) :
          /\ parentheses_pairs[m][3] = <<>>
          /\ AloneOnLine(parentheses_pairs[m])

====
